---- MODULE Spec2Model ----
(***************************************************************************)
(* A model of ThreadPool::ThreadPool (src/ThreadPool.hpp): a fixed set of  *)
(* worker threads running wait_for_work, producers calling submit, the     *)
(* constructor that spawns the workers and the destructor (destroy) that   *)
(* sets m_done, broadcasts and joins.                                      *)
(*                                                                         *)
(* A step of a thread ends where another thread can observe or change what *)
(* it does next: at each acquisition of m_mutex, at each read or write of  *)
(* m_done and at the call of wait(lock), so that the interleavings of the  *)
(* unlocked write of m_done in destroy with a worker's predicate check and *)
(* its blocking are all present.                                           *)
(***************************************************************************)
EXTENDS Naturals, Sequences, FiniteSets

\* Bounds of the model.
MaxThreads == 2
MaxProducers == 2
MaxTasks == 2

Workers == 1..MaxThreads
Producers == 1..MaxProducers
TaskIds == 1..MaxTasks

\* Thread identities, as owners of m_mutex.
NoOwner == <<"none", 0>>
WorkerThread(w) == <<"worker", w>>
ProducerThread(p) == <<"producer", p>>
DestructorThread == <<"destructor", 0>>

VARIABLES
    num_threads,  \* the constructor's argument
    cpc,          \* position of the constructor
    m_done,       \* std::atomic_bool m_done
    m_queue,      \* std::queue<task_ptr>: a sequence of envelopes
    m_threads,    \* number of std::thread objects pushed into m_threads
    m_mutex,      \* owner of m_mutex
    waiters,      \* workers blocked inside m_condition.wait
    wpc,          \* position of each worker thread
    task,         \* the envelope a worker holds (local `task` of wait_for_work)
    ppc,          \* position of each producer inside submit
    ptask,        \* the envelope a producer holds (local `task` of submit)
    report,       \* what each submit call ended with
    dpc,          \* position of the destructor
    joined,       \* workers whose std::thread has been joined
    nextId,       \* number of submit calls so far
    future,       \* shared state of each packaged_task, read through its future
    \* history
    submitted,    \* the callable handed to each submit call
    pushed,       \* envelopes in the order their push completed
    popped,       \* envelopes in the order they were dequeued
    runs,         \* how often each envelope's callable was invoked
    sets,         \* how often each shared state was satisfied
    diag          \* envelopes for which wait_for_work printed its diagnostic

vars == <<num_threads, cpc, m_done, m_queue, m_threads, m_mutex, waiters, wpc,
          task, ppc, ptask, report, dpc, joined, nextId, future, submitted,
          pushed, popped, runs, sets, diag>>

ctorVars == <<num_threads, cpc, m_threads>>
workerVars == <<wpc, task>>
producerVars == <<ppc, ptask, report, nextId, submitted>>
dtorVars == <<dpc, joined>>
runVars == <<future, runs, sets, diag>>
queueHist == <<pushed, popped>>

NoTask == [id |-> 0, callable |-> [arg |-> 0, throws |-> FALSE], promise |-> 0]
Pending == [state |-> "pending", val |-> 0]

\* The process runs until std::terminate ends it.
Alive == cpc # "terminated"

Init ==
    /\ num_threads \in 0..MaxThreads
    /\ cpc = "spawning"
    /\ m_done = FALSE
    /\ m_queue = <<>>
    /\ m_threads = 0
    /\ m_mutex = NoOwner
    /\ waiters = {}
    /\ wpc = [w \in Workers |-> "unstarted"]
    /\ task = [w \in Workers |-> NoTask]
    /\ ppc = [p \in Producers |-> "idle"]
    /\ ptask = [p \in Producers |-> NoTask]
    /\ report = [t \in TaskIds |-> "none"]
    /\ dpc = "alive"
    /\ joined = {}
    /\ nextId = 0
    /\ future = [h \in TaskIds |-> Pending]
    /\ submitted = [t \in TaskIds |-> NoTask.callable]
    /\ pushed = <<>>
    /\ popped = <<>>
    /\ runs = [t \in TaskIds |-> 0]
    /\ sets = [h \in TaskIds |-> 0]
    /\ diag = {}

----
\* The constructor, lines 85-96.

\* A spawn loop that runs once too often.
CtorSpawnOffByOne ==
    /\ cpc = "spawning"
    /\ m_threads <= num_threads
    /\ m_threads < MaxThreads
    /\ m_threads' = m_threads + 1
    /\ wpc' = [wpc EXCEPT ![m_threads + 1] = "guard"]
    /\ UNCHANGED <<num_threads, cpc, m_done, m_queue, m_mutex, waiters, task,
                   producerVars, dtorVars, runVars, queueHist>>

\* Line 90-92: one more std::thread is created and starts wait_for_work.
CtorSpawn ==
    /\ cpc = "spawning"
    /\ m_threads < num_threads
    /\ m_threads' = m_threads + 1
    /\ wpc' = [wpc EXCEPT ![m_threads + 1] = "guard"]
    /\ UNCHANGED <<num_threads, cpc, m_done, m_queue, m_mutex, waiters, task,
                   producerVars, dtorVars, runVars, queueHist>>

\* Line 89: the loop ends, the constructor returns.
CtorReturn ==
    /\ cpc = "spawning"
    /\ m_threads = num_threads
    /\ cpc' = "constructed"
    /\ UNCHANGED <<num_threads, m_threads, m_done, m_queue, m_mutex, waiters,
                   workerVars, producerVars, dtorVars, runVars, queueHist>>

\* Lines 88, 91, 93-94: reserve or the creation of the next thread throws; the
\* handler throws ThreadPoolException(constructor_failed) out of the constructor.
CtorThrow ==
    /\ cpc = "spawning"
    /\ m_threads < num_threads
    /\ cpc' = "unwinding"
    /\ UNCHANGED <<num_threads, m_threads, m_done, m_queue, m_mutex, waiters,
                   workerVars, producerVars, dtorVars, runVars, queueHist>>

\* The exception leaves the constructor: the members are destroyed in reverse
\* order of declaration (lines 121-125), ~ThreadPool is not run. With no thread
\* in m_threads the exception reaches the caller.
CtorUnwindClean ==
    /\ cpc = "unwinding"
    /\ m_threads = 0
    /\ cpc' = "reported"
    /\ UNCHANGED <<num_threads, m_threads, m_done, m_queue, m_mutex, waiters,
                   workerVars, producerVars, dtorVars, runVars, queueHist>>

\* ~vector<std::thread> destroys a joinable std::thread: std::terminate.
CtorUnwindTerminate ==
    /\ cpc = "unwinding"
    /\ m_threads > 0
    /\ cpc' = "terminated"
    /\ UNCHANGED <<num_threads, m_threads, m_done, m_queue, m_mutex, waiters,
                   workerVars, producerVars, dtorVars, runVars, queueHist>>

\* m_condition is destroyed (before m_threads) while a worker is blocked on it:
\* undefined; the destructor of the condition variable may wait for the blocked
\* workers and never return.
CtorUnwindHang ==
    /\ cpc = "unwinding"
    /\ m_threads > 0
    /\ waiters # {}
    /\ cpc' = "hung"
    /\ UNCHANGED <<num_threads, m_threads, m_done, m_queue, m_mutex, waiters,
                   workerVars, producerVars, dtorVars, runVars, queueHist>>

Ctor ==
    \/ CtorSpawn
    \/ CtorReturn
    \/ CtorThrow
    \/ CtorUnwindClean
    \/ CtorUnwindTerminate
    \/ CtorUnwindHang

----
\* The task envelope, lines 26-65.

\* Lines 33-37: the closure applies the stored function to the stored arguments;
\* the functions of the model square their argument or throw.
Apply(callable) ==
    IF callable.throws
    THEN [state |-> "exception", val |-> callable.arg]
    ELSE [state |-> "value", val |-> callable.arg * callable.arg]

\* Envelopes that all complete the shared state of the first one.
MakeTaskSharedState(id, callable) == [id |-> id, callable |-> callable, promise |-> 1]

\* Lines 60-65 and 46-49: make_task wraps the callable into a packaged_task and
\* get_future hands out the future of the same shared state.
MakeTask(id, callable) == [id |-> id, callable |-> callable, promise |-> id]

\* An envelope that calls the closure itself: what it throws leaves run_me and
\* no shared state receives it.
RunMeUnwrapped(env) ==
    IF env.callable.throws
    THEN [promise |-> env.promise, stored |-> {}, thrown |-> TRUE]
    ELSE [promise |-> env.promise, stored |-> {Apply(env.callable)}, thrown |-> FALSE]

\* Lines 51-54: run_me calls the std::packaged_task, which invokes the closure and
\* stores its value or the exception it throws in the shared state; nothing the
\* callable throws leaves run_me.
RunMe(env) == [promise |-> env.promise, stored |-> {Apply(env.callable)}, thrown |-> FALSE]

----
\* The queue and the condition variable, lines 143-165.

\* Lines 146-149: the predicate of m_condition.wait.
WaitPredicate(done, queue) == done \/ queue # <<>>

\* Line 154: m_queue.front().
QueueFront(queue) == Head(queue)

\* A pop that removes nothing.
QueuePopNothing(queue) == queue

\* Line 155: m_queue.pop().
QueuePop(queue) == Tail(queue)

\* A push at the head of the queue.
QueuePushFront(queue, env) == <<env>> \o queue

\* Line 163: m_queue.push.
QueuePush(queue, env) == Append(queue, env)

\* A push that broadcasts.
NotifyOneAsBroadcast(blocked) == {blocked}

\* A push that notifies nobody.
NotifyNobody(blocked) == {{}}

\* Line 164: notify_one unblocks one of the threads blocked on m_condition, if any.
NotifyOne(blocked) == IF blocked = {} THEN {{}} ELSE {{w} : w \in blocked}

\* Line 170: notify_all unblocks every thread blocked on m_condition.
NotifyAll(blocked) == blocked

\* The workers in `woken` are unblocked: each goes on, inside wait, to lock
\* m_mutex again and to evaluate the predicate again.
Wake(woken) ==
    /\ waiters' = waiters \ woken
    /\ wpc' = [w \in Workers |-> IF w \in woken THEN "lock" ELSE wpc[w]]

----
\* The worker loop, lines 127-157.

\* A loop that runs while m_done is set.
LoopGuardInverted(done) == done

\* Line 129: the condition of the while loop.
LoopGuard(done) == ~done

\* A try_pop that hands out queued envelopes after m_done was set.
ShutdownObservedWhenDrained(done, queue) == done /\ queue = <<>>

\* Lines 151-152: try_pop returns std::nullopt.
ShutdownObserved(done, queue) == done

\* A lock that try_pop leaves locked.
UniqueLockKept(owner) == owner

\* Lines 145, 152, 156-157: ~unique_lock unlocks m_mutex when try_pop returns.
UniqueLockRelease(owner) == NoOwner

\* Line 129: while (!m_done), read without m_mutex.
WorkerGuard(w) ==
    /\ Alive
    /\ wpc[w] = "guard"
    /\ wpc' = [wpc EXCEPT ![w] = IF LoopGuard(m_done) THEN "lock" ELSE "stopped"]
    /\ UNCHANGED <<ctorVars, m_done, m_queue, m_mutex, waiters, task,
                   producerVars, dtorVars, runVars, queueHist>>

\* Lines 145-149: lock m_mutex (on entry of try_pop, or inside wait after the
\* worker was unblocked), then evaluate the predicate. When it is false the
\* worker is about to call wait(lock), still holding m_mutex.
WorkerLock(w) ==
    /\ Alive
    /\ wpc[w] = "lock"
    /\ m_mutex = NoOwner
    /\ m_mutex' = WorkerThread(w)
    /\ wpc' = [wpc EXCEPT ![w] = IF WaitPredicate(m_done, m_queue) THEN "got" ELSE "block"]
    /\ UNCHANGED <<ctorVars, m_done, m_queue, waiters, task,
                   producerVars, dtorVars, runVars, queueHist>>

\* Line 146: wait(lock) releases m_mutex and blocks on m_condition, atomically.
WorkerBlock(w) ==
    /\ Alive
    /\ wpc[w] = "block"
    /\ m_mutex' = NoOwner
    /\ waiters' = waiters \cup {w}
    /\ wpc' = [wpc EXCEPT ![w] = "waiting"]
    /\ UNCHANGED <<ctorVars, m_done, m_queue, task,
                   producerVars, dtorVars, runVars, queueHist>>

\* Line 146: a blocked wait may return without a notification.
WorkerSpuriousWake(w) ==
    /\ Alive
    /\ w \in waiters
    /\ Wake({w})
    /\ UNCHANGED <<ctorVars, m_done, m_queue, m_mutex, task,
                   producerVars, dtorVars, runVars, queueHist>>

\* Lines 151-156, 131: after the wait; nullopt when m_done, else the front is
\* moved out and popped. The lock is released on return.
WorkerPop(w) ==
    /\ Alive
    /\ wpc[w] = "got"
    /\ m_mutex' = UniqueLockRelease(m_mutex)
    /\ IF ShutdownObserved(m_done, m_queue)
       THEN /\ wpc' = [wpc EXCEPT ![w] = "guard"]
            /\ UNCHANGED <<m_queue, task, queueHist>>
       ELSE /\ task' = [task EXCEPT ![w] = QueueFront(m_queue)]
            /\ m_queue' = QueuePop(m_queue)
            /\ popped' = Append(popped, QueueFront(m_queue).id)
            /\ wpc' = [wpc EXCEPT ![w] = "run"]
            /\ UNCHANGED pushed
    /\ UNCHANGED <<ctorVars, m_done, waiters, producerVars, dtorVars, runVars>>

\* Lines 132-139: run_me; an exception leaving it is caught, and the diagnostic
\* is printed under m_mutex. The envelope is destroyed at the end of the
\* iteration.
WorkerRun(w) ==
    /\ Alive
    /\ wpc[w] = "run"
    /\ LET r == RunMe(task[w]) IN
        /\ r.thrown => m_mutex = NoOwner
        /\ runs' = [runs EXCEPT ![task[w].id] = @ + 1]
        /\ future' = [h \in TaskIds |->
                        IF h = r.promise /\ r.stored # {}
                        THEN CHOOSE o \in r.stored : TRUE ELSE future[h]]
        /\ sets' = [h \in TaskIds |->
                        IF h = r.promise /\ r.stored # {} THEN sets[h] + 1 ELSE sets[h]]
        /\ diag' = IF r.thrown THEN diag \cup {task[w].id} ELSE diag
    /\ wpc' = [wpc EXCEPT ![w] = "guard"]
    /\ task' = [task EXCEPT ![w] = NoTask]
    /\ UNCHANGED <<ctorVars, m_done, m_queue, m_mutex, waiters,
                   producerVars, dtorVars, queueHist>>

Worker(w) ==
    \/ WorkerGuard(w)
    \/ WorkerLock(w)
    \/ WorkerBlock(w)
    \/ WorkerSpuriousWake(w)
    \/ WorkerPop(w)
    \/ WorkerRun(w)

----
\* submit and add_task, lines 98-111 and 159-165.

\* The callables a caller may hand to the submit call number `id`.
Callables(id) == {[arg |-> id, throws |-> b] : b \in BOOLEAN}

\* A push that throws after it has linked the envelope.
QueueAfterPartialPush(queue, env) == Append(queue, env)

\* Line 163 when the allocation inside push throws: the queue it leaves behind.
QueueAfterFailedPush(queue, env) == queue

\* Line 165 (and 162 during unwinding): ~lock_guard unlocks m_mutex.
LockGuardRelease(owner) == NoOwner

\* submit is called on a constructed pool whose destructor has not begun.
PoolUsable == cpc = "constructed" /\ dpc = "alive"

\* Lines 102-106, 162: make_task and get_future succeed, add_task's lock_guard
\* locks m_mutex.
SubmitLock(p) ==
    /\ PoolUsable
    /\ ppc[p] = "idle"
    /\ nextId < MaxTasks
    /\ m_mutex = NoOwner
    /\ m_mutex' = ProducerThread(p)
    /\ \E c \in Callables(nextId + 1) :
        /\ ptask' = [ptask EXCEPT ![p] = MakeTask(nextId + 1, c)]
        /\ submitted' = [submitted EXCEPT ![nextId + 1] = c]
    /\ nextId' = nextId + 1
    /\ ppc' = [ppc EXCEPT ![p] = "push"]
    /\ UNCHANGED <<ctorVars, m_done, m_queue, waiters, workerVars, report,
                   dtorVars, runVars, queueHist>>

\* Lines 102-105, 108-109: make_task or get_future throws; submit throws
\* ThreadPoolException(adding_task_failed).
SubmitMakeFail(p) ==
    /\ PoolUsable
    /\ ppc[p] = "idle"
    /\ nextId < MaxTasks
    /\ nextId' = nextId + 1
    /\ report' = [report EXCEPT ![nextId + 1] = "TaskSubmissionFailed"]
    /\ UNCHANGED <<ctorVars, m_done, m_queue, m_mutex, waiters, workerVars,
                   ppc, ptask, submitted, dtorVars, runVars, queueHist>>

\* Lines 163-165, 107: the envelope is appended, notify_one, the lock is
\* released and the future is returned.
SubmitPush(p) ==
    /\ ppc[p] = "push"
    /\ m_queue' = QueuePush(m_queue, ptask[p])
    /\ pushed' = Append(pushed, ptask[p].id)
    /\ \E woken \in NotifyOne(waiters) : Wake(woken)
    /\ m_mutex' = LockGuardRelease(m_mutex)
    /\ ppc' = [ppc EXCEPT ![p] = "idle"]
    /\ ptask' = [ptask EXCEPT ![p] = NoTask]
    /\ report' = [report EXCEPT ![ptask[p].id] = "ok"]
    /\ UNCHANGED <<ctorVars, m_done, task, nextId, submitted,
                   dtorVars, runVars, popped>>

\* Lines 163, 165, 108-109: push throws; the lock is released during unwinding,
\* the envelope and its future are destroyed, submit throws
\* ThreadPoolException(adding_task_failed).
SubmitPushFail(p) ==
    /\ ppc[p] = "push"
    /\ m_queue' = QueueAfterFailedPush(m_queue, ptask[p])
    /\ m_mutex' = LockGuardRelease(m_mutex)
    /\ ppc' = [ppc EXCEPT ![p] = "idle"]
    /\ ptask' = [ptask EXCEPT ![p] = NoTask]
    /\ report' = [report EXCEPT ![ptask[p].id] = "TaskSubmissionFailed"]
    /\ UNCHANGED <<ctorVars, m_done, waiters, workerVars,
                   nextId, submitted, dtorVars, runVars, queueHist>>

Producer(p) ==
    \/ SubmitLock(p)
    \/ SubmitMakeFail(p)
    \/ SubmitPush(p)
    \/ SubmitPushFail(p)

----
\* The destructor, lines 113-116 and 167-174.

\* A join that does not wait for the thread (a detach in its place).
JoinReturnsAtOnce(pc) == TRUE

\* Lines 172-173: join returns once the thread has finished wait_for_work.
JoinReturns(pc) == pc = "stopped"

\* Line 169: m_done = true, written without m_mutex. The pool is destroyed once,
\* when no submit call is in progress.
DestroySetDone ==
    /\ PoolUsable
    /\ \A p \in Producers : ppc[p] = "idle"
    /\ m_done' = TRUE
    /\ dpc' = "notify"
    /\ UNCHANGED <<ctorVars, m_queue, m_mutex, waiters, workerVars,
                   producerVars, joined, runVars, queueHist>>

\* Line 170: notify_all.
DestroyNotifyAll ==
    /\ dpc = "notify"
    /\ Wake(NotifyAll(waiters))
    /\ dpc' = "join"
    /\ UNCHANGED <<ctorVars, m_done, m_queue, m_mutex, task,
                   producerVars, joined, runVars, queueHist>>

\* Lines 171-173: the threads are joined in the order of m_threads.
DestroyJoin ==
    /\ dpc = "join"
    /\ Cardinality(joined) < m_threads
    /\ JoinReturns(wpc[Cardinality(joined) + 1])
    /\ joined' = joined \cup {Cardinality(joined) + 1}
    /\ UNCHANGED <<ctorVars, m_done, m_queue, m_mutex, waiters, workerVars,
                   producerVars, dpc, runVars, queueHist>>

\* A destroy that clears the flag on its way out.
DestroyReturnClearsDone ==
    /\ dpc = "join"
    /\ Cardinality(joined) = m_threads
    /\ dpc' = "returned"
    /\ m_done' = FALSE
    /\ UNCHANGED <<ctorVars, m_queue, m_mutex, waiters, workerVars,
                   producerVars, joined, runVars, queueHist>>

\* Line 174: destroy returns, and with it the destructor.
DestroyReturn ==
    /\ dpc = "join"
    /\ Cardinality(joined) = m_threads
    /\ dpc' = "returned"
    /\ UNCHANGED <<ctorVars, m_done, m_queue, m_mutex, waiters, workerVars,
                   producerVars, joined, runVars, queueHist>>

Destroy ==
    \/ DestroySetDone
    \/ DestroyNotifyAll
    \/ DestroyJoin
    \/ DestroyReturn

----
Next ==
    \/ Ctor
    \/ \E w \in Workers : Worker(w)
    \/ \E p \in Producers : Producer(p)
    \/ Destroy

Spec == Init /\ [][Next]_vars

\* The steps the scheduler owes a started thread: every step of a worker but the
\* spurious return of wait, the rest of a submit call that holds m_mutex, the
\* rest of the constructor and of the destructor. Callers need not call submit
\* or destroy the pool, and wait need not return spuriously.
WorkerStep(w) ==
    WorkerGuard(w) \/ WorkerBlock(w) \/ WorkerPop(w) \/ WorkerRun(w)

ProducerStep(p) == SubmitPush(p) \/ SubmitPushFail(p)

DestroyStep == DestroyNotifyAll \/ DestroyJoin \/ DestroyReturn

Scheduled ==
    \/ \E w \in Workers : WorkerStep(w) \/ WorkerLock(w)
    \/ \E p \in Producers : ProducerStep(p)
    \/ DestroyStep

\* m_mutex is taken to be starvation-free: a thread that finds it free again and
\* again acquires it, hence the strong fairness of a worker's steps (all but
\* WorkerLock stay enabled until taken). At most one producer holds m_mutex, and
\* the constructor has returned when the destructor begins, so one weak fairness
\* condition serves all producers and one the constructor and the destructor.
Fairness ==
    /\ \A w \in Workers : SF_vars(WorkerStep(w) \/ WorkerLock(w))
    /\ WF_vars(\E p \in Producers : ProducerStep(p))
    /\ WF_vars(Ctor \/ DestroyStep)

FairSpec == Spec /\ Fairness

\* The same scheduling when a task body need not return: a worker that runs an
\* envelope is owed no step.
WorkerStepOutsideRun(w) == WorkerGuard(w) \/ WorkerBlock(w) \/ WorkerPop(w)

FairnessOutsideRun ==
    /\ \A w \in Workers : SF_vars(WorkerStepOutsideRun(w) \/ WorkerLock(w))
    /\ WF_vars(\E p \in Producers : ProducerStep(p))
    /\ WF_vars(Ctor \/ DestroyStep)

NoReturnSpec == Spec /\ FairnessOutsideRun

----
\* Helpers of the properties.

Range(seq) == {seq[i] : i \in 1..Len(seq)}

\* The positions of x in seq.
Positions(seq, x) == {i \in 1..Len(seq) : seq[i] = x}

Started == 1..m_threads

Resolved(t) == future[t].state # "pending"

Accepted(t) == report[t] = "ok"

Failed(t) == report[t] = "TaskSubmissionFailed"

DestroyBegun == dpc \in {"notify", "join"}

----
\* C1. Destruction terminates: once the destructor has set m_done and broadcast,
\* every worker reaches "stopped", every join completes and the destructor
\* returns. A state in which the destructor has begun and has not returned, and
\* in which no thread has a step the scheduler owes it, is a state the program
\* never leaves: the claim says no such state is reachable.
C1_DestructionTerminates == DestroyBegun => ENABLED Scheduled

\* C2. Destruction does not return early: when the destructor has returned every
\* one of the num_threads workers is stopped and holds no envelope.
C2_NoEarlyReturn ==
    dpc = "returned" =>
        /\ m_threads = num_threads
        /\ \A w \in 1..num_threads : wpc[w] = "stopped" /\ task[w] = NoTask
        /\ waiters = {}

\* The destructor has returned from a pool of at least two workers that ran a task.
C2_Witness ==
    /\ dpc = "returned"
    /\ num_threads >= 2
    /\ \E t \in TaskIds : runs[t] > 0

\* C3. Task liveness: in a pool of at least one worker whose destructor does not
\* begin, every envelope that submit accepted is eventually dequeued and run and
\* its future eventually holds a value or an exception. An accepted envelope
\* stays accepted, so the claim for each envelope is that again and again all
\* the accepted envelopes have been run.
C3_Owed(t) == num_threads >= 1 /\ Accepted(t)

C3_Done(t) == t \in Range(popped) /\ runs[t] >= 1 /\ Resolved(t)

C3_TaskLiveness ==
    /\ [][\A t \in TaskIds : C3_Owed(t) => C3_Owed(t)']_vars
    /\ []<>(m_done \/ \A t \in TaskIds : C3_Owed(t) => C3_Done(t))

\* Two envelopes accepted from two producers were run in a live pool in which a
\* worker is blocked again.
C3_Witness ==
    /\ ~m_done
    /\ \A t \in 1..2 : Accepted(t) /\ runs[t] = 1 /\ Resolved(t)
    /\ waiters # {}

\* C4. FIFO dequeue order: of two envelopes whose pushes completed in the order
\* A, B and that are both dequeued, A is dequeued first; with one worker the
\* envelopes are dequeued, and so start to run, in exactly the order of their
\* pushes, each one run before the next is dequeued.
C4_FifoOrder ==
    /\ \A i, j \in 1..Len(pushed) :
        (i < j /\ pushed[i] \in Range(popped) /\ pushed[j] \in Range(popped)) =>
            \A a \in Positions(popped, pushed[i]) :
                \A b \in Positions(popped, pushed[j]) : a < b
    /\ num_threads = 1 =>
        /\ Len(popped) <= Len(pushed)
        /\ \A i \in 1..Len(popped) : popped[i] = pushed[i]
        /\ \A i \in 1..(Len(popped) - 1) : runs[popped[i]] >= 1

\* The single worker of a pool has dequeued two envelopes in the order of their
\* pushes and runs the second.
C4_Witness ==
    /\ num_threads = 1
    /\ Len(popped) = 2
    /\ popped = pushed
    /\ wpc[1] = "run"

\* C5. At-most-once execution: no envelope is dequeued more than once or held by
\* two workers, and no callable is invoked more than once.
C5_AtMostOnce ==
    /\ \A t \in TaskIds : Cardinality(Positions(popped, t)) <= 1 /\ runs[t] <= 1
    /\ \A v, w \in Workers : (v # w /\ task[v] # NoTask) => task[v].id # task[w].id
    /\ \A w \in Workers : task[w] # NoTask =>
            \A i \in 1..Len(m_queue) : m_queue[i].id # task[w].id

\* Two workers execute two envelopes at the same time.
C5_Witness ==
    /\ \A w \in 1..2 : wpc[w] = "run"
    /\ Len(popped) = 2

\* C6. Result delivery is exact: a shared state is satisfied at most once, by a
\* worker that runs the envelope made in the submit call that made the future,
\* with the outcome of the callable handed to that call; so when all calls have
\* been accepted and all futures resolved, the results are the tasks' results,
\* each in its own future.
C6_Delivered(h) ==
    /\ sets[h] <= 1
    /\ Resolved(h) <=> sets[h] = 1
    /\ Resolved(h) => future[h] = Apply(submitted[h]) /\ runs[h] = 1

C6_DeliveryStep(h) ==
    future'[h] # future[h] =>
        \E w \in Workers :
            /\ wpc[w] = "run" /\ wpc'[w] # "run"
            /\ task[w].id = h
            /\ task[w].callable = submitted[h]
            /\ h \in Range(popped)

C6_ExactDelivery ==
    /\ [](\A h \in TaskIds : C6_Delivered(h))
    /\ []((\A h \in TaskIds : Accepted(h) /\ Resolved(h)) =>
            \A g, h \in TaskIds : future[g] = future[h] => g = h)
    /\ [][\A h \in TaskIds : C6_DeliveryStep(h)]_vars

\* All submit calls were accepted and all futures hold their results, a value
\* and an exception among them.
C6_Witness ==
    /\ \A h \in TaskIds : Accepted(h) /\ Resolved(h)
    /\ \E g, h \in TaskIds : future[g].state = "value" /\ future[h].state = "exception"

\* C7. Failure isolation: a worker whose task throws goes back to the loop guard
\* and stops only when m_done is set, the future of the failing task holds the
\* exception, and every envelope accepted once a task has failed is still run
\* and its future resolved with its own outcome (in a pool that is not
\* destroyed): such an envelope stays owed, and again and again all of them have
\* been run.
C7_FailureStep(w) ==
    (wpc[w] = "run" /\ wpc'[w] # "run" /\ task[w].callable.throws) =>
        /\ wpc'[w] = "guard"
        /\ future'[task[w].promise] = [state |-> "exception", val |-> task[w].callable.arg]
        /\ \A h \in TaskIds \ {task[w].promise} : future'[h] = future[h]

C7_Owed(t) ==
    /\ num_threads >= 1
    /\ \E f \in TaskIds : runs[f] >= 1 /\ submitted[f].throws
    /\ Accepted(t)

C7_Done(t) == runs[t] >= 1 /\ future[t] = Apply(submitted[t])

C7_FailureIsolation ==
    /\ [][\A w \in Workers : C7_FailureStep(w)]_vars
    /\ [](\A w \in Workers : wpc[w] = "stopped" => m_done)
    /\ [][\A t \in TaskIds : C7_Owed(t) => C7_Owed(t)']_vars
    /\ []<>(m_done \/ \A t \in TaskIds : C7_Owed(t) => C7_Done(t))

\* The single worker of a live pool ran a task that threw and then a task
\* submitted later, which returned its value.
C7_Witness ==
    /\ num_threads = 1
    /\ ~m_done
    /\ \E f, t \in TaskIds :
        /\ f < t
        /\ future[f].state = "exception"
        /\ future[t].state = "value"
        /\ wpc[1] # "stopped"

\* C8. A task execution failure is handled twice: whenever a callable that
\* throws has been run, wait_for_work has caught the failure and printed its
\* diagnostic, and the future of that task holds the failure.
C8_FailureHandledTwice ==
    \A t \in TaskIds :
        (runs[t] >= 1 /\ submitted[t].throws) =>
            /\ t \in diag
            /\ future[t] = [state |-> "exception", val |-> submitted[t].arg]

\* C9. Construction failure is clean: when the creation of a thread has failed
\* and the construction has ended, the caller has received the
\* ThreadPoolException and every worker started before the failure has stopped.
C9_CleanConstructionFailure ==
    cpc \in {"reported", "terminated", "hung"} =>
        /\ cpc = "reported"
        /\ \A w \in Started : wpc[w] = "stopped"

\* C10. A failed submit has no effect on the pool: the step in which a submit
\* call fails leaves the queue as it was, without the call's envelope, leaves
\* m_mutex free of the caller, and changes no worker; envelopes accepted after a
\* failed call are still run and resolved (in a pool that is not destroyed):
\* such an envelope stays owed, and again and again all of them have been run.
C10_FailureStep(t) ==
    (~Failed(t) /\ Failed(t)') =>
        /\ m_queue' = m_queue
        /\ \A i \in 1..Len(m_queue') : m_queue'[i].id # t
        /\ \A p \in Producers : m_mutex' # ProducerThread(p) \/ ptask'[p].id # t
        /\ \A p \in Producers : ptask[p].id = t => m_mutex' = NoOwner
        /\ wpc' = wpc /\ task' = task /\ waiters' = waiters /\ m_done' = m_done
        /\ future' = future

C10_Owed(t) ==
    /\ num_threads >= 1
    /\ \E f \in TaskIds : f < t /\ Failed(f)
    /\ Accepted(t)

C10_Done(t) == runs[t] >= 1 /\ Resolved(t)

C10_FailedSubmitHarmless ==
    /\ [][\A t \in TaskIds : C10_FailureStep(t)]_vars
    /\ [][\A t \in TaskIds : C10_Owed(t) => C10_Owed(t)']_vars
    /\ []<>(m_done \/ \A t \in TaskIds : C10_Owed(t) => C10_Done(t))

\* A submit call failed in push, and a later call was accepted and its task run.
C10_Witness ==
    \E f, t \in TaskIds :
        /\ f < t
        /\ Failed(f) /\ submitted[f].arg = f
        /\ Accepted(t) /\ runs[t] = 1 /\ Resolved(t)
        /\ m_mutex = NoOwner

\* C11. submit never waits for task execution: whatever the workers do, also
\* when every worker runs a task that never returns, a submit call that holds
\* m_mutex can push and return at once, and m_mutex, the one thing a submit call
\* waits for, is free again and again (no thread keeps it while a task runs).
C11_SubmitNeverWaits ==
    /\ [](\A p \in Producers : ppc[p] = "push" =>
            m_mutex = ProducerThread(p) /\ ENABLED SubmitPush(p))
    /\ [](\A p \in Producers :
            (PoolUsable /\ ppc[p] = "idle" /\ nextId < MaxTasks /\ m_mutex = NoOwner)
                => ENABLED SubmitLock(p))
    /\ []<>(cpc # "constructed" \/ (m_mutex = NoOwner /\ \A p \in Producers : ppc[p] = "idle"))

\* Every worker of the pool is running a task and a submit call made meanwhile
\* has returned, its envelope waiting in the queue.
C11_Witness ==
    /\ num_threads >= 1
    /\ \A w \in 1..num_threads : wpc[w] = "run"
    /\ m_queue # <<>>
    /\ \A i \in 1..Len(m_queue) : Accepted(m_queue[i].id)
    /\ \A p \in Producers : ppc[p] = "idle"

\* C12. The shutdown flag is monotonic: m_done is false until the destructor
\* begins, and no step of any thread takes it from true back to false.
C12_DoneMonotonic ==
    /\ [](dpc = "alive" => ~m_done)
    /\ [][m_done => m_done']_vars

\* The destructor has returned, the workers have run and stopped, and the flag
\* is still set.
C12_Witness ==
    /\ m_done
    /\ dpc = "returned"
    /\ num_threads >= 1
    /\ \E t \in TaskIds : runs[t] >= 1

\* C13. Lock discipline: a step that changes m_queue, and the step in which
\* try_pop reads m_done and the queue after the wait, is taken by the thread that
\* holds m_mutex; and the step that writes m_done at shutdown is taken by the
\* destructor's thread while it holds m_mutex. (The read of m_done in the loop
\* guard is the one exception and is not constrained.)
C13_Step ==
    /\ m_queue' # m_queue =>
        \/ \E w \in Workers : m_mutex = WorkerThread(w) /\ wpc[w] = "got"
        \/ \E p \in Producers : m_mutex = ProducerThread(p) /\ ppc[p] = "push"
    /\ \A w \in Workers :
        (wpc[w] = "got" /\ wpc'[w] # "got") => m_mutex = WorkerThread(w)
    /\ m_done' # m_done => m_mutex = DestructorThread

C13_LockDiscipline == [][C13_Step]_vars

\* C14. Suspension condition: a worker is blocked on m_condition only inside
\* try_pop, and no worker is blocked, with no wakeup pending for it, while the
\* queue is non-empty or m_done is set. The claim is stated in the reading most
\* favourable to the code: the broadcast that the destructor still owes after
\* it set m_done counts as a pending wakeup, and so does, for a non-empty queue,
\* any worker that is awake to take the envelope.
C14_SuspensionCondition ==
    \A w \in waiters :
        /\ wpc[w] = "waiting"
        /\ m_done => dpc = "notify"
        /\ m_queue # <<>> => \E v \in Started : v \notin waiters

\* C15. push signals one consumer: the step that completes a push is taken under
\* m_mutex, appends the envelope at the tail and unblocks exactly one blocked
\* worker when there is one and none otherwise, the others staying blocked with
\* no envelope; a worker that then finds the queue empty again goes back to wait
\* without dequeuing; an envelope is dequeued by one worker only; and only the
\* broadcast of the destructor unblocks more than one worker in a step.
C15_PushStep ==
    pushed' # pushed =>
        \E p \in Producers :
            /\ m_mutex = ProducerThread(p)
            /\ m_queue' = Append(m_queue, ptask[p])
            /\ waiters' \subseteq waiters
            /\ Cardinality(waiters \ waiters') = IF waiters = {} THEN 0 ELSE 1
            /\ \A w \in waiters' : wpc'[w] = "waiting" /\ task'[w] = NoTask

C15_EmptyHanded(w) ==
    (wpc[w] = "lock" /\ wpc'[w] # "lock" /\ m_queue = <<>> /\ ~m_done) =>
        wpc'[w] = "block" /\ task'[w] = NoTask /\ popped' = popped

C15_OnlyShutdownWakesAll ==
    Cardinality(waiters \ waiters') >= 2 => dpc = "notify" /\ dpc' = "join"

C15_PushSignalsOne ==
    /\ [][C15_PushStep]_vars
    /\ [][\A w \in Workers : C15_EmptyHanded(w)]_vars
    /\ [][C15_OnlyShutdownWakesAll]_vars
    /\ [](\A t \in TaskIds : Cardinality(Positions(popped, t)) <= 1)

\* One push into a pool of two workers: one worker has dequeued the envelope
\* and the other is blocked, holding nothing.
C15_Witness ==
    /\ num_threads = 2
    /\ nextId = 1
    /\ popped = <<1>>
    /\ \E v, w \in Workers : wpc[v] = "run" /\ w \in waiters /\ task[w] = NoTask

\* C16. Shutdown drops queued work: a try_pop that observes m_done returns no
\* envelope and leaves the queue as it is, also when the queue is non-empty;
\* once m_done is set and every started worker has stopped, the queue and the
\* run counts never change again, and no envelope left in the queue was run.
C16_AllStopped == m_done /\ \A w \in Started : wpc[w] = "stopped"

C16_PopStep(w) ==
    (wpc[w] = "got" /\ wpc'[w] # "got" /\ m_done) =>
        /\ wpc'[w] = "guard"
        /\ task'[w] = NoTask
        /\ m_queue' = m_queue
        /\ popped' = popped

C16_ShutdownDropsQueue ==
    /\ [][\A w \in Workers : C16_PopStep(w)]_vars
    /\ [][C16_AllStopped => m_queue' = m_queue /\ runs' = runs /\ C16_AllStopped']_vars
    /\ [](C16_AllStopped => \A i \in 1..Len(m_queue) : runs[m_queue[i].id] = 0)

\* The destructor has returned from a pool whose worker ran one envelope and
\* left the other in the queue.
C16_Witness ==
    /\ dpc = "returned"
    /\ num_threads >= 1
    /\ Len(popped) = 1
    /\ Len(m_queue) = 1
    /\ runs[m_queue[1].id] = 0
    /\ future[m_queue[1].id].state = "pending"

\* C17. Worker state machine: a worker starts to execute only out of a try_pop
\* that returned the front envelope; from executing it goes back to the loop
\* test only; it leaves the loop test into the wait only with m_done false and
\* into "stopped" only with m_done true; a stopped worker stays stopped and
\* holds no envelope; every dequeue and every run is the step of a worker that
\* has not stopped; and a stopped worker implies m_done.
C17_Step(w) ==
    /\ (wpc'[w] = "run" /\ wpc[w] # "run") =>
            /\ wpc[w] = "got"
            /\ m_queue # <<>>
            /\ task'[w] = QueueFront(m_queue)
    /\ (wpc[w] = "run" /\ wpc'[w] # "run") => wpc'[w] = "guard" /\ task'[w] = NoTask
    /\ (wpc[w] = "guard" /\ wpc'[w] # "guard") =>
            \/ ~m_done /\ wpc'[w] = "lock"
            \/ m_done /\ wpc'[w] = "stopped"
    /\ (wpc'[w] = "stopped" /\ wpc[w] # "stopped") => wpc[w] = "guard" /\ m_done
    /\ wpc[w] = "stopped" => wpc'[w] = "stopped" /\ task'[w] = NoTask

C17_ActiveWorkerStep ==
    /\ popped' # popped => \E w \in Workers : wpc[w] = "got" /\ wpc'[w] = "run"
    /\ runs' # runs => \E w \in Workers : wpc[w] = "run" /\ wpc'[w] = "guard"

C17_WorkerStateMachine ==
    /\ [][\A w \in Workers : C17_Step(w)]_vars
    /\ [][C17_ActiveWorkerStep]_vars
    /\ [](\A w \in Workers : wpc[w] = "stopped" => m_done /\ task[w] = NoTask)

\* One worker has stopped while the other is still executing an envelope.
C17_Witness ==
    \E v, w \in Workers :
        /\ wpc[v] = "stopped"
        /\ wpc[w] = "run"
        /\ task[w] # NoTask

\* C18. Fixed worker count: never more than num_threads workers exist, a
\* constructed pool has exactly num_threads of them until it is destroyed, so at
\* most num_threads envelopes are being executed; with num_threads = 0 the
\* construction does not fail and nothing is ever dequeued, run or resolved.
C18_Executing == {w \in Workers : wpc[w] = "run"}

C18_FixedWorkerCount ==
    /\ m_threads <= num_threads
    /\ cpc = "constructed" => m_threads = num_threads
    /\ \A w \in Workers \ Started : wpc[w] = "unstarted" /\ task[w] = NoTask
    /\ Cardinality(C18_Executing) <= num_threads
    /\ num_threads = 0 =>
            /\ cpc \in {"spawning", "constructed"}
            /\ popped = <<>>
            /\ \A t \in TaskIds : runs[t] = 0 /\ ~Resolved(t)

\* A pool of no workers was constructed and two submissions were accepted; both
\* envelopes sit in the queue.
C18_Witness ==
    /\ num_threads = 0
    /\ cpc = "constructed"
    /\ Len(m_queue) = 2
    /\ \A i \in 1..Len(m_queue) : Accepted(m_queue[i].id)
    /\ \A p \in Producers : ppc[p] = "idle"

\* C19. No lock is held while a task runs: a worker that is executing an
\* envelope does not own m_mutex; a worker owns it exactly between its lock and
\* its wait or its return from try_pop, a producer exactly inside add_task; so
\* while every worker executes, a submit that finds the mutex free takes it.
C19_NoLockWhileRunning ==
    /\ \A w \in Workers : wpc[w] = "run" => m_mutex # WorkerThread(w)
    /\ \A w \in Workers : m_mutex = WorkerThread(w) <=> wpc[w] \in {"block", "got"}
    /\ \A p \in Producers : m_mutex = ProducerThread(p) <=> ppc[p] = "push"
    /\ \A p \in Producers :
            (/\ PoolUsable
             /\ \E w \in Workers : wpc[w] = "run"
             /\ m_mutex = NoOwner
             /\ ppc[p] = "idle"
             /\ nextId < MaxTasks) => ENABLED SubmitLock(p)

\* A worker is executing an envelope while a producer is inside add_task.
C19_Witness ==
    \E w \in Workers, p \in Producers :
        /\ wpc[w] = "run"
        /\ ppc[p] = "push"
        /\ m_mutex = ProducerThread(p)

\* C20. In-flight tasks are not cancelled by shutdown: every dequeued envelope
\* is run and its future resolved, m_done set or not; the destructor has not
\* returned while a dequeued envelope is unresolved; and a worker that executes
\* while m_done is set goes to the loop test and from there to "stopped".
C20_InFlight(t) == t \in Range(popped) /\ ~Resolved(t)

C20_StopStep(w) ==
    /\ (m_done /\ wpc[w] = "run") => wpc'[w] \in {"run", "guard"}
    /\ (m_done /\ wpc[w] = "guard") => wpc'[w] \in {"guard", "stopped"}

C20_InFlightCompletes ==
    /\ []<>(\A t \in TaskIds : ~C20_InFlight(t))
    /\ [](dpc = "returned" =>
            \A t \in Range(popped) : Resolved(t) /\ runs[t] = 1)
    /\ [][\A w \in Workers : C20_StopStep(w)]_vars

\* The destructor has set m_done while a worker is executing an envelope whose
\* future is still pending.
C20_Witness ==
    /\ m_done
    /\ dpc \in {"notify", "join"}
    /\ \E w \in Workers : wpc[w] = "run" /\ C20_InFlight(task[w].id)

====
